---------------------------- MODULE Spec2Model ----------------------------
(***************************************************************************)
(* Movie Rating Explorer (src/app.py): a Streamlit script that loads a     *)
(* table of movies once and, on every widget interaction, re-runs from top *)
(* to bottom: filter, count, sorted display, CSV export, verdict and       *)
(* similar-movies list for the selected title.                             *)
(*                                                                         *)
(* A table is a sequence of rows; the position of a row is its pandas      *)
(* index label, so a derived frame (a filter result, a sorted frame) is a  *)
(* sequence of positions into df.  A cell is <<>> when it is NaN/NaT and   *)
(* <<v>> when it holds v.  Text is a sequence of one-character strings.    *)
(* vote_average and rating_threshold are held in tenths (8.0 is 80).       *)
(***************************************************************************)
EXTENDS Integers, Sequences, FiniteSets

VARIABLES df, query, languages, min_votes, rating_threshold, year_range,
          movie_title, out

vars == <<df, query, languages, min_votes, rating_threshold, year_range,
          movie_title, out>>

\* Longest table the source file holds.
MaxRows == 3

----------------------------------------------------------------------------
(* Cells *)

NaN == <<>>

Some(v) == <<v>>

isna(c) == c = NaN

Val(c) == c[1]

Min(a, b) == IF a <= b THEN a ELSE b

----------------------------------------------------------------------------
(* Text *)

\* str.lower() on the characters the model's titles and queries use.
LowerChar(c) ==
  IF c = "A" THEN "a" ELSE IF c = "B" THEN "b" ELSE c

Lower(s) == [i \in 1..Len(s) |-> LowerChar(s[i])]

IsSpace(c) == c \in {" ", "\n"}

RECURSIVE LStrip(_)
LStrip(s) ==
  IF s # <<>> /\ IsSpace(Head(s)) THEN LStrip(Tail(s)) ELSE s

RECURSIVE RStrip(_)
RStrip(s) ==
  IF s # <<>> /\ IsSpace(s[Len(s)]) THEN RStrip(SubSeq(s, 1, Len(s) - 1)) ELSE s

\* str.strip()
Strip(s) == RStrip(LStrip(s))

\* re.compile(pat): of the characters a query is typed from, "(" opens a
\* group and no character closes one, so a pattern holding "(" is refused
\* ("missing ), unterminated subpattern").
RegexCompiles(pat) == \A i \in 1..Len(pat) : pat[i] # "("

\* pat.search(s) is not None: "." stands for any character but a newline,
\* every other character of a compiled pattern for itself.
RegexSearch(pat, s) ==
  \E k \in 0..(Len(s) - Len(pat)) :
    \A i \in 1..Len(pat) :
      \/ pat[i] = "." /\ s[k + i] # "\n"
      \/ pat[i] # "." /\ pat[i] = s[k + i]

----------------------------------------------------------------------------
(* The source file and load_data *)

Date(y, m, d) == [year |-> y, month |-> m, day |-> d]

SrcRow(t, tl, lang, date, yr, avg, votes) ==
  [title |-> t, title_lower |-> tl, original_language |-> lang,
   release_date |-> date, release_year |-> yr,
   vote_average |-> avg, vote_count |-> votes]

en == <<"e", "n">>

fr == <<"f", "r">>

\* Lines a source file is made of.  title_lower and release_year are read
\* only when the file has such a column.  The first two lines tie on
\* (vote_average, vote_count); the third repeats the first one's title and
\* has no rating; the fourth carries a title_lower that is not the lowercase
\* of its title and has no language, date or vote count; the fifth has no
\* title.
SrcLines ==
  << SrcRow(Some(<<"A", "b">>), Some(<<"a", "b">>), Some(en),
            Some(Date(2000, 5, 17)), Some(2000), Some(80), Some(100)),
     SrcRow(Some(<<"b", ",", "\"">>), Some(<<"b", ",", "\"">>), Some(en),
            Some(Date(2001, 1, 1)), Some(2001), Some(80), Some(100)),
     SrcRow(Some(<<"A", "b">>), Some(<<"a", "b">>), Some(en),
            Some(Date(1990, 12, 31)), Some(1990), NaN, Some(200)),
     SrcRow(Some(<<"a">>), Some(<<"b">>), NaN,
            NaN, NaN, Some(90), NaN),
     SrcRow(NaN, NaN, Some(fr),
            Some(Date(2000, 2, 29)), Some(2000), Some(90), Some(10)) >>

\* Columns every file has, and the helper columns it may have.
BaseColumns ==
  {"title", "original_language", "release_date", "vote_average", "vote_count"}

HelperColumns == {"title_lower", "release_year"}

Injective(s) == \A i, j \in 1..Len(s) : i # j => s[i] # s[j]

\* Which lines a file holds, in the file's order: up to MaxRows of them, each
\* once.
Picks ==
  { s \in UNION { [1..n -> 1..Len(SrcLines)] : n \in 1..MaxRows } : Injective(s) }

\* The lines stand in the order of SrcLines, or in the reverse order.
Monotone(s) ==
  \/ \A i, j \in 1..Len(s) : i < j => s[i] < s[j]
  \/ \A i, j \in 1..Len(s) : i < j => s[i] > s[j]

FilesOf(picks) ==
  { [columns |-> BaseColumns \cup h,
     rows |-> [k \in 1..Len(s) |-> SrcLines[s[k]]]] :
      h \in SUBSET HelperColumns, s \in picks }

\* The files a session is explored on, with every control in play.
SourceFiles == FilesOf({ s \in Picks : Monotone(s) })

\* The files the order of the frames is explored on: the lines in any order.
AnyOrderFiles == FilesOf(Picks)

\* pd.to_datetime(..., errors='coerce').dt.year of one cell
YearOf(date) == IF isna(date) THEN NaN ELSE Some(Val(date).year)

\* Series.str.lower() of one cell
StrLower(c) == IF isna(c) THEN NaN ELSE Some(Lower(Val(c)))

load_data(file) ==
  [i \in 1..Len(file.rows) |->
     LET r == file.rows[i] IN
     [title |-> r.title,
      title_lower |->
        IF "title_lower" \notin file.columns
          THEN StrLower(r.title)
          ELSE r.title_lower,
      original_language |-> r.original_language,
      release_date |-> r.release_date,
      release_year |->
        IF "release_year" \notin file.columns
          THEN (IF "release_date" \in file.columns
                  THEN YearOf(r.release_date)
                  ELSE NaN)
          ELSE r.release_year,
      vote_average |-> r.vote_average,
      vote_count |-> r.vote_count]]

----------------------------------------------------------------------------
(* Sidebar controls *)

\* sorted(df['original_language'].dropna().unique())
languages_opt(d) ==
  { Val(d[i].original_language) :
      i \in { j \in 1..Len(d) : ~isna(d[j].original_language) } }

\* sorted(df['title'].dropna().unique()); '' is <<>>
title_options(d) ==
  {<<>>} \cup { Val(d[i].title) : i \in { j \in 1..Len(d) : ~isna(d[j].title) } }

\* Texts typed into the search box.
Queries ==
  { <<>>, <<" ">>, <<" ", "B">>, <<".">>, <<"(">> }

DefaultMinVotes == 50

MinVotesChoices == {0, DefaultMinVotes}

\* 7.0
DefaultThreshold == 70

Thresholds == {DefaultThreshold, 85}

DefaultYearRange == <<1980, 2023>>

\* Ranges the slider is set to; the slider's own ends (the table's first and
\* last year) are not modelled.
YearRanges == {DefaultYearRange, <<1995, 2000>>}

\* Rows kept by head() of the search results and of the similar movies.  The
\* script keeps 500 and 10; the model keeps fewer, so that tables of MaxRows
\* rows are cut.
DisplayCap == 2

SimilarCap == 2

----------------------------------------------------------------------------
(* Comparisons of a cell with a number: every comparison with NaN is False *)

Ge(c, n) == ~isna(c) /\ Val(c) >= n

Le(c, n) == ~isna(c) /\ Val(c) <= n

\* Series.isin(values)
IsIn(c, values) == ~isna(c) /\ Val(c) \in values

\* Series.str.contains(pat, na=False) of one cell, pat compiled
StrContains(c, pat) == ~isna(c) /\ RegexSearch(pat, Val(c))

Index(d) == [i \in 1..Len(d) |-> i]

----------------------------------------------------------------------------
(* Apply filters *)

ByLanguage(d, rows, langs) ==
  IF langs # {}
    THEN SelectSeq(rows, LAMBDA i : IsIn(d[i].original_language, langs))
    ELSE rows

ByVotes(d, rows, mv) ==
  SelectSeq(rows, LAMBDA i : Ge(d[i].vote_count, mv))

ByYear(d, rows, yr) ==
  SelectSeq(rows, LAMBDA i : Ge(d[i].release_year, yr[1])
                             /\ Le(d[i].release_year, yr[2]))

\* The frame filtered before the title search.
BeforeQuery(d, langs, mv, yr) ==
  ByYear(d, ByVotes(d, ByLanguage(d, Index(d), langs), mv), yr)

\* The title search raises re.error when the pattern does not compile.
QueryFaults(q) == q # <<>> /\ ~RegexCompiles(Lower(Strip(q)))

ByQuery(d, rows, q) ==
  IF q # <<>>
    THEN SelectSeq(rows, LAMBDA i : StrContains(d[i].title_lower, Lower(Strip(q))))
    ELSE rows

Filtered(d, q, langs, mv, yr) ==
  ByQuery(d, BeforeQuery(d, langs, mv, yr), q)

----------------------------------------------------------------------------
(* sort_values(['vote_average','vote_count'], ascending=[False, False]) *)

\* One key, descending, NaN last: a sorts strictly before b.
DescBefore(a, b) ==
  \/ ~isna(a) /\ isna(b)
  \/ ~isna(a) /\ ~isna(b) /\ Val(a) > Val(b)

KeysBefore(x, y) ==
  \/ DescBefore(x.vote_average, y.vote_average)
  \/ /\ x.vote_average = y.vote_average
     /\ DescBefore(x.vote_count, y.vote_count)

\* As Insert, putting a row before the rows it ties with.
RECURSIVE InsertBeforeTies(_, _, _)
InsertBeforeTies(d, s, i) ==
  IF s = <<>> THEN <<i>>
  ELSE IF ~KeysBefore(d[Head(s)], d[i]) THEN <<i>> \o s
  ELSE <<Head(s)>> \o InsertBeforeTies(d, Tail(s), i)

\* Row i put into the sorted frame s: before the first row it sorts strictly
\* before, and after every row it ties with.
RECURSIVE Insert(_, _, _)
Insert(d, s, i) ==
  IF s = <<>> THEN <<i>>
  ELSE IF KeysBefore(d[i], d[Head(s)]) THEN <<i>> \o s
  ELSE <<Head(s)>> \o Insert(d, Tail(s), i)

RECURSIVE sort_values(_, _)
sort_values(d, rows) ==
  IF rows = <<>> THEN <<>>
  ELSE Insert(d, sort_values(d, SubSeq(rows, 1, Len(rows) - 1)), rows[Len(rows)])

\* DataFrame.head(n)
head(s, n) == SubSeq(s, 1, Min(n, Len(s)))

\* As Displayed, cutting the frame before sorting it.
DisplayedCutFirst(d, rows) == sort_values(d, head(rows, DisplayCap))

\* The frame st.dataframe shows.
Displayed(d, rows) == head(sort_values(d, rows), DisplayCap)

\* len(filtered) in "Matching titles"
Matching(rows) == Len(rows)

----------------------------------------------------------------------------
(* filtered[display_cols].to_csv(index=False) *)

display_cols ==
  <<"title", "release_year", "original_language", "vote_average", "vote_count">>

Digits == <<"0", "1", "2", "3", "4", "5", "6", "7", "8", "9">>

RECURSIVE FmtNat(_)
FmtNat(n) ==
  IF n < 10 THEN <<Digits[n + 1]>>
  ELSE FmtNat(n \div 10) \o <<Digits[(n % 10) + 1]>>

\* A column read with a missing value is float64, and keeps that dtype in
\* every frame derived from df; a whole-number column without one is int64.
IsFloatColumn(d, col) == \E i \in 1..Len(d) : isna(d[i][col])

\* A release_year or vote_count cell: 2000 or 2000.0; NaN is the empty text.
FmtCount(d, col, c) ==
  IF isna(c) THEN <<>>
  ELSE IF IsFloatColumn(d, col) THEN FmtNat(Val(c)) \o <<".", "0">>
  ELSE FmtNat(Val(c))

\* A vote_average cell, a float: 8.0
FmtAverage(c) ==
  IF isna(c) THEN <<>>
  ELSE FmtNat(Val(c) \div 10) \o <<".">> \o <<Digits[(Val(c) % 10) + 1]>>

FmtText(c) == IF isna(c) THEN <<>> ELSE Val(c)

FmtCell(d, i, col) ==
  CASE col = "title" -> FmtText(d[i].title)
    [] col = "original_language" -> FmtText(d[i].original_language)
    [] col = "vote_average" -> FmtAverage(d[i].vote_average)
    [] OTHER -> FmtCount(d, col, d[i][col])

RECURSIVE DoubleQuotes(_)
DoubleQuotes(t) ==
  IF t = <<>> THEN <<>>
  ELSE IF Head(t) = "\"" THEN <<"\"", "\"">> \o DoubleQuotes(Tail(t))
  ELSE <<Head(t)>> \o DoubleQuotes(Tail(t))

\* csv.QUOTE_MINIMAL
CsvField(t) ==
  IF \E k \in 1..Len(t) : t[k] \in {",", "\"", "\n", "\r"}
    THEN <<"\"">> \o DoubleQuotes(t) \o <<"\"">>
    ELSE t

RECURSIVE CsvLine(_)
CsvLine(fields) ==
  IF Len(fields) = 1 THEN CsvField(fields[1]) \o <<"\n">>
  ELSE CsvField(Head(fields)) \o <<",">> \o CsvLine(Tail(fields))

\* One column name as text.
ColumnText(col) ==
  CASE col = "title" -> <<"t", "i", "t", "l", "e">>
    [] col = "release_year" ->
         <<"r", "e", "l", "e", "a", "s", "e", "_", "y", "e", "a", "r">>
    [] col = "original_language" ->
         <<"o", "r", "i", "g", "i", "n", "a", "l", "_",
           "l", "a", "n", "g", "u", "a", "g", "e">>
    [] col = "vote_average" ->
         <<"v", "o", "t", "e", "_", "a", "v", "e", "r", "a", "g", "e">>
    [] col = "vote_count" ->
         <<"v", "o", "t", "e", "_", "c", "o", "u", "n", "t">>

RECURSIVE CsvRows(_, _)
CsvRows(d, rows) ==
  IF rows = <<>> THEN <<>>
  ELSE CsvLine([k \in 1..Len(display_cols) |-> FmtCell(d, Head(rows), display_cols[k])])
       \o CsvRows(d, Tail(rows))

\* The header row: the column names.
CsvHeader ==
  CsvLine([k \in 1..Len(display_cols) |-> ColumnText(display_cols[k])])

to_csv(d, rows) == CsvHeader \o CsvRows(d, rows)

\* As Exported, handing to_csv the frame that is shown.
ExportedShown(d, rows) == Displayed(d, rows)

\* The frame handed to to_csv: filtered[display_cols], as filtered stands.
Exported(d, rows) == rows

----------------------------------------------------------------------------
(* Select a movie: verdict and similar movies *)

\* df[df['title'] == movie_title].iloc[0]
Movie(d, mt) ==
  LET hits == { i \in 1..Len(d) : d[i].title = Some(mt) }
  IN  CHOOSE i \in hits : \A j \in hits : i <= j

\* As good, with a missing vote_count counted as 0 votes.
goodVotesFilled(movie, th, mv) ==
  /\ ~isna(movie.vote_average)
  /\ Val(movie.vote_average) >= th
  /\ (IF isna(movie.vote_count) THEN 0 ELSE Val(movie.vote_count)) >= mv

good(movie, th, mv) ==
  /\ ~isna(movie.vote_average)
  /\ Val(movie.vote_average) >= th
  /\ Ge(movie.vote_count, mv)

\* As Similar, leaving out the rows equal to the selected one instead of the
\* rows that carry its title.
SimilarBarSelf(d, movie, mv, yr) ==
  LET lang == movie.original_language
      sims1 == SelectSeq(Index(d),
                 LAMBDA i : /\ ~isna(lang)
                            /\ ~isna(d[i].original_language)
                            /\ d[i].original_language = lang
                            /\ d[i] # movie)
      sims2 == SelectSeq(sims1,
                 LAMBDA i : /\ Ge(d[i].vote_count, mv)
                            /\ Ge(d[i].release_year, yr[1])
                            /\ Le(d[i].release_year, yr[2]))
  IN  head(sort_values(d, sims2), SimilarCap)

Similar(d, movie, mv, yr) ==
  LET lang == movie.original_language
      sims1 == SelectSeq(Index(d),
                 LAMBDA i : /\ ~isna(lang)
                            /\ ~isna(d[i].original_language)
                            /\ d[i].original_language = lang
                            /\ d[i].title # movie.title)
      sims2 == SelectSeq(sims1,
                 LAMBDA i : /\ Ge(d[i].vote_count, mv)
                            /\ Ge(d[i].release_year, yr[1])
                            /\ Le(d[i].release_year, yr[2]))
  IN  head(sort_values(d, sims2), SimilarCap)

----------------------------------------------------------------------------
(* One run of the script, top to bottom, on the cached table *)

\* What a run that stopped at the title search leaves.
Faulted ==
  [fault |-> TRUE, filtered |-> <<>>, matching |-> 0, shown |-> <<>>,
   csv_bytes |-> <<>>, movie |-> 0, verdict |-> "none", sims |-> <<>>]

Outputs(d, q, langs, mv, th, yr, mt) ==
  IF QueryFaults(q) THEN Faulted
  ELSE
    LET filtered == Filtered(d, q, langs, mv, yr) IN
    [fault |-> FALSE,
     filtered |-> filtered,
     matching |-> Matching(filtered),
     shown |-> Displayed(d, filtered),
     csv_bytes |-> to_csv(d, Exported(d, filtered)),
     movie |-> IF mt # <<>> THEN Movie(d, mt) ELSE 0,
     verdict |-> IF mt # <<>>
                   THEN (IF good(d[Movie(d, mt)], th, mv) THEN "GOOD" ELSE "SKIP")
                   ELSE "none",
     sims |-> IF mt # <<>> THEN Similar(d, d[Movie(d, mt)], mv, yr) ELSE <<>>]

\* As Script, the filters narrowing the cached table itself.
ScriptOnCachedTable(q, langs, mv, th, yr, mt) ==
  /\ df' = (IF QueryFaults(q) THEN df
            ELSE LET kept == Filtered(df, q, langs, mv, yr)
                 IN  [k \in 1..Len(kept) |-> df[kept[k]]])
  /\ query' = q
  /\ languages' = langs
  /\ min_votes' = mv
  /\ rating_threshold' = th
  /\ year_range' = yr
  /\ movie_title' = mt
  /\ out' = Outputs(df, q, langs, mv, th, yr, mt)

\* load_data() under st.cache_data hands every run the table it loaded.
Script(q, langs, mv, th, yr, mt) ==
  /\ df' = df
  /\ query' = q
  /\ languages' = langs
  /\ min_votes' = mv
  /\ rating_threshold' = th
  /\ year_range' = yr
  /\ movie_title' = mt
  /\ out' = Outputs(df, q, langs, mv, th, yr, mt)

\* The first run: the table as loaded, every control at its default.
FirstRun(files) ==
  \E file \in files :
    /\ df = load_data(file)
    /\ query = <<>>
    /\ languages = {}
    /\ min_votes = DefaultMinVotes
    /\ rating_threshold = DefaultThreshold
    /\ year_range = DefaultYearRange
    /\ movie_title = <<>>
    /\ out = Outputs(df, <<>>, {}, DefaultMinVotes, DefaultThreshold,
                     DefaultYearRange, <<>>)

Init == FirstRun(SourceFiles)

InitAnyOrder == FirstRun(AnyOrderFiles)

\* Each interaction changes one control and runs the script again.
SetQuery ==
  \E q \in Queries \ {query} :
    Script(q, languages, min_votes, rating_threshold, year_range, movie_title)

SetLanguages ==
  \E langs \in (SUBSET languages_opt(df)) \ {languages} :
    Script(query, langs, min_votes, rating_threshold, year_range, movie_title)

SetMinVotes ==
  \E mv \in MinVotesChoices \ {min_votes} :
    Script(query, languages, mv, rating_threshold, year_range, movie_title)

SetThreshold ==
  \E th \in Thresholds \ {rating_threshold} :
    Script(query, languages, min_votes, th, year_range, movie_title)

SetYearRange ==
  \E yr \in YearRanges \ {year_range} :
    Script(query, languages, min_votes, rating_threshold, yr, movie_title)

SelectMovie ==
  \E mt \in title_options(df) \ {movie_title} :
    Script(query, languages, min_votes, rating_threshold, year_range, mt)

Next ==
  \/ SetQuery
  \/ SetLanguages
  \/ SetMinVotes
  \/ SetThreshold
  \/ SetYearRange
  \/ SelectMovie

Spec == Init /\ [][Next]_vars

\* The interactions that change which rows the frames hold, on files whose
\* lines stand in any order.
NextAnyOrder ==
  \/ SetLanguages
  \/ SetMinVotes
  \/ SetYearRange
  \/ SelectMovie

SpecAnyOrder == InitAnyOrder /\ [][NextAnyOrder]_vars

----------------------------------------------------------------------------
(* Properties *)

Range(s) == { s[k] : k \in 1..Len(s) }

\* needle occurs in hay, character for character.
Contains(needle, hay) ==
  \E k \in 0..(Len(hay) - Len(needle)) :
    \A i \in 1..Len(needle) : needle[i] = hay[k + i]

\* A row satisfies every active predicate of the criteria, the query read
\* as a literal substring.
Satisfies(r, q, langs, mv, yr) ==
  /\ langs # {} => (~isna(r.original_language) /\ Val(r.original_language) \in langs)
  /\ ~isna(r.vote_count) /\ Val(r.vote_count) >= mv
  /\ ~isna(r.release_year) /\ yr[1] <= Val(r.release_year)
                           /\ Val(r.release_year) <= yr[2]
  /\ q # <<>> => (~isna(r.title_lower) /\ Contains(Lower(Strip(q)), Val(r.title_lower)))

\* C1: the rows filter keeps are exactly the rows that satisfy all active
\* predicates together, the trimmed, lowercased query being matched as a
\* literal substring of title_lower.
C1_FilterKeepsExactlyTheMatches ==
  ~out.fault =>
    \A i \in 1..Len(df) :
      i \in Range(out.filtered)
        <=> Satisfies(df[i], query, languages, min_votes, year_range)

\* C2 as stated: the verdict is GOOD exactly when vote_average is present and
\* at least the threshold and vote_count, an absent one counted as 0, is at
\* least min_votes.
C2_VerdictCountsAbsentVotesAsZero ==
  out.movie # 0 =>
    LET m == df[out.movie]
        votes == IF isna(m.vote_count) THEN 0 ELSE Val(m.vote_count)
    IN  out.verdict = "GOOD"
          <=> /\ ~isna(m.vote_average)
              /\ Val(m.vote_average) >= rating_threshold
              /\ votes >= min_votes

\* C2 as amended: the verdict is GOOD exactly when vote_average is present and
\* at least the threshold and vote_count is present and at least min_votes; a
\* record without vote_count is SKIP for every min_votes, 0 included.
C2_VerdictRule ==
  out.movie # 0 =>
    LET m == df[out.movie]
    IN  /\ out.verdict \in {"GOOD", "SKIP"}
        /\ out.verdict = "GOOD"
             <=> /\ ~isna(m.vote_average)
                 /\ Val(m.vote_average) >= rating_threshold
                 /\ ~isna(m.vote_count)
                 /\ Val(m.vote_count) >= min_votes
        /\ isna(m.vote_count) => out.verdict = "SKIP"

\* A well-rated record without vote_count is judged with min_votes at 0.
C2_Witness ==
  /\ out.movie # 0
  /\ min_votes = 0
  /\ isna(df[out.movie].vote_count)
  /\ ~isna(df[out.movie].vote_average)
  /\ Val(df[out.movie].vote_average) >= rating_threshold
  /\ out.verdict = "SKIP"

\* C3: every record similar returns has the reference's language, a title
\* other than the reference's, vote_count >= min_votes and a release_year
\* inside the year range; a reference without language has no similar record.
C3_SimilarConstraints ==
  out.movie # 0 =>
    LET m == df[out.movie] IN
    /\ isna(m.original_language) => out.sims = <<>>
    /\ \A k \in 1..Len(out.sims) :
         LET r == df[out.sims[k]] IN
         /\ ~isna(m.original_language)
         /\ r.original_language = m.original_language
         /\ r.title # m.title
         /\ r.title # Some(movie_title)
         /\ ~isna(r.vote_count) /\ Val(r.vote_count) >= min_votes
         /\ ~isna(r.release_year)
         /\ year_range[1] <= Val(r.release_year)
         /\ Val(r.release_year) <= year_range[2]

\* A similar record is returned while another row carries the selected title
\* and passes every other constraint.
C3_Witness ==
  /\ out.movie # 0
  /\ out.sims # <<>>
  /\ \E j \in 1..Len(df) :
       /\ j # out.movie
       /\ df[j].title = df[out.movie].title
       /\ df[j].original_language = df[out.movie].original_language
       /\ ~isna(df[j].vote_count) /\ Val(df[j].vote_count) >= min_votes
       /\ ~isna(df[j].release_year)
       /\ year_range[1] <= Val(df[j].release_year)
       /\ Val(df[j].release_year) <= year_range[2]

\* Row i comes before row j under the ordering rule: higher vote_average
\* first, a present vote_average before an absent one, then higher
\* vote_count, then the order of the source table.
ComesBefore(i, j) ==
  LET a == df[i]
      b == df[j]
      sameAverage == (isna(a.vote_average) /\ isna(b.vote_average))
                     \/ (~isna(a.vote_average) /\ ~isna(b.vote_average)
                         /\ Val(a.vote_average) = Val(b.vote_average))
      sameCount == (isna(a.vote_count) /\ isna(b.vote_count))
                   \/ (~isna(a.vote_count) /\ ~isna(b.vote_count)
                       /\ Val(a.vote_count) = Val(b.vote_count))
  IN  \/ ~isna(a.vote_average) /\ isna(b.vote_average)
      \/ ~isna(a.vote_average) /\ ~isna(b.vote_average)
           /\ Val(a.vote_average) > Val(b.vote_average)
      \/ sameAverage /\ ~isna(a.vote_count) /\ isna(b.vote_count)
      \/ sameAverage /\ ~isna(a.vote_count) /\ ~isna(b.vote_count)
           /\ Val(a.vote_count) > Val(b.vote_count)
      \/ sameAverage /\ sameCount /\ i < j

Ordered(s) == \A k, l \in 1..Len(s) : k < l => ComesBefore(s[k], s[l])

\* C4: the shown search results and the similar movies are ordered by the
\* same rule: descending vote_average, then descending vote_count, absent
\* vote_average after every present one, full ties in source-table order.
C4_SameOrderingRule ==
  /\ Ordered(out.shown)
  /\ Ordered(out.sims)

\* The search results show two rows that tie on both keys, and the similar
\* movies end with an unrated row that has more votes than the rated one
\* before it.
C4_Witness ==
  /\ Len(out.shown) = 2
  /\ df[out.shown[1]].vote_average = df[out.shown[2]].vote_average
  /\ df[out.shown[1]].vote_count = df[out.shown[2]].vote_count
  /\ ~isna(df[out.shown[1]].vote_average)
  /\ Len(out.sims) = 2
  /\ ~isna(df[out.sims[1]].vote_average)
  /\ isna(df[out.sims[2]].vote_average)
  /\ Val(df[out.sims[2]].vote_count) > Val(df[out.sims[1]].vote_count)

\* C5: the displayed result holds at most DisplayCap rows, the first ones of
\* the sorted filter result, and the reported count is the number of rows
\* that passed the filter, whatever the cap cuts.
C5_CapCutsTheSortedResult ==
  ~out.fault =>
    /\ Len(out.shown) <= DisplayCap
    /\ Len(out.shown) = Min(DisplayCap, Len(out.filtered))
    /\ Range(out.shown) \subseteq Range(out.filtered)
    /\ Ordered(out.shown)
    /\ \A i \in Range(out.shown) :
         \A j \in Range(out.filtered) \ Range(out.shown) : ComesBefore(i, j)
    /\ out.matching = Len(out.filtered)
    /\ out.matching = Cardinality(Range(out.filtered))

\* More rows pass the filter than are displayed, and the row left out comes
\* first in the source table.
C5_Witness ==
  /\ ~out.fault
  /\ Len(out.filtered) > DisplayCap
  /\ out.matching > Len(out.shown)
  /\ out.filtered[1] \notin Range(out.shown)

\* C6: a query of whitespace only keeps the rows the empty query keeps, the
\* other criteria being the same.
C6_BlankQueryKeepsWhatEmptyQueryKeeps ==
  (query # <<>> /\ Strip(query) = <<>> /\ ~out.fault) =>
    out.filtered = Filtered(df, <<>>, languages, min_votes, year_range)

\* C7: no run of the script ends in a fault, whatever the query text, the
\* other criteria and the selected title.
C7_NoRunFaults == ~out.fault

\* C8: every row that has a title has title_lower present and equal to the
\* lowercase of the title, whatever columns the source file carried.
C8_TitleLowerIsLowercaseTitle ==
  \A i \in 1..Len(df) :
    ~isna(df[i].title) => df[i].title_lower = Some(Lower(Val(df[i].title)))

\* C9: no interaction changes the table load returned.
C9_TableNeverChanges == [][df' = df]_vars

\* A run has searched, filtered by language and selected a title, and its
\* view holds fewer rows than the table.
C9_Witness ==
  /\ query # <<>>
  /\ languages # {}
  /\ movie_title # <<>>
  /\ min_votes # DefaultMinVotes
  /\ ~out.fault
  /\ Len(out.filtered) < Len(df)
  /\ out.sims # <<>>

----------------------------------------------------------------------------
(* Reading an export back, as a CSV reader does *)

\* A position of b lies outside double quotes when an even number of quote
\* characters comes before it (a doubled quote counts twice).
Outside(b, p) == Cardinality({ k \in 1..(p - 1) : b[k] = "\"" }) % 2 = 0

\* The n-th smallest member of a set of positions.
Nth(S, n) == CHOOSE p \in S : Cardinality({ e \in S : e < p }) = n - 1

\* The pieces of b that the separator sep, outside quotes, ends or parts.
Pieces(b, sep, closed) ==
  LET cuts == { p \in 1..Len(b) : b[p] = sep /\ Outside(b, p) }
      n == Cardinality(cuts) + (IF closed THEN 0 ELSE 1)
  IN  [k \in 1..n |->
         SubSeq(b,
                IF k = 1 THEN 1 ELSE Nth(cuts, k - 1) + 1,
                IF k > Cardinality(cuts) THEN Len(b) ELSE Nth(cuts, k) - 1)]

RECURSIVE Undouble(_)
Undouble(t) ==
  IF t = <<>> THEN <<>>
  ELSE IF Head(t) = "\"" THEN <<"\"">> \o Undouble(SubSeq(t, 3, Len(t)))
  ELSE <<Head(t)>> \o Undouble(Tail(t))

\* A field's text: a field in double quotes runs to its closing quote, a
\* doubled quote inside it standing for one.
Unquote(f) ==
  IF f # <<>> /\ f[1] = "\"" THEN Undouble(SubSeq(f, 2, Len(f) - 1)) ELSE f

\* The lines of b, each a sequence of field texts.
CsvRead(b) ==
  LET lines == Pieces(b, "\n", TRUE) IN
  [n \in 1..Len(lines) |->
     LET fields == Pieces(lines[n], ",", FALSE)
     IN  [k \in 1..Len(fields) |-> Unquote(fields[k])]]

DigitValue(c) == CHOOSE n \in 0..9 : Digits[n + 1] = c

RECURSIVE ReadNat(_)
ReadNat(t) ==
  IF Len(t) = 1 THEN DigitValue(t[1])
  ELSE 10 * ReadNat(SubSeq(t, 1, Len(t) - 1)) + DigitValue(t[Len(t)])

DotAt(t) == IF \E k \in 1..Len(t) : t[k] = "."
              THEN CHOOSE k \in 1..Len(t) : t[k] = "."
              ELSE Len(t) + 1

\* A number read in tenths: "2000" and "2000.0" are 20000, "8.5" is 85.
ReadTenths(t) ==
  LET dot == DotAt(t) IN
  10 * ReadNat(SubSeq(t, 1, dot - 1))
  + (IF dot < Len(t) THEN DigitValue(t[dot + 1]) ELSE 0)

ReadText(t) == IF t = <<>> THEN NaN ELSE Some(t)

ReadNumber(t) == IF t = <<>> THEN NaN ELSE Some(ReadTenths(t))

\* A table cell as the reader's value of it.
AsRead(col, c) ==
  IF isna(c) THEN NaN
  ELSE IF col \in {"title", "original_language"} THEN c
  ELSE IF col = "vote_average" THEN c
  ELSE Some(10 * Val(c))

ReadCell(col, t) ==
  IF col \in {"title", "original_language"} THEN ReadText(t) ELSE ReadNumber(t)

\* The export read back gives the column names in display order, then the
\* rows of the frame, one line each, in the frame's order.
ReadsBackAs(b, frame) ==
  LET lines == CsvRead(b) IN
  /\ Len(lines) = 1 + Len(frame)
  /\ lines[1] = [k \in 1..Len(display_cols) |-> ColumnText(display_cols[k])]
  /\ \A n \in 1..Len(frame) :
       /\ Len(lines[n + 1]) = Len(display_cols)
       /\ \A k \in 1..Len(display_cols) :
            ReadCell(display_cols[k], lines[n + 1][k])
              = AsRead(display_cols[k], df[frame[n]][display_cols[k]])

\* C10 as stated: the export is the header row and one row per record of the
\* sorted filter result, in the sorted order, and reads back as that view.
C10_ExportIsTheSortedView ==
  ~out.fault => ReadsBackAs(out.csv_bytes, sort_values(df, out.filtered))

\* C10 as amended: the export is the header row and one row per record that
\* passed the filter, all of them, in source-table order, and reads back as
\* those records in that order with the columns in display order.
C10_ExportIsTheFilteredFrame ==
  ~out.fault =>
    /\ ReadsBackAs(out.csv_bytes, out.filtered)
    /\ \A k, l \in 1..Len(out.filtered) : k < l => out.filtered[k] < out.filtered[l]

\* An export of more rows than are displayed, in an order that is not the
\* sorted one, with a title that needs quoting and an empty cell.
C10_Witness ==
  /\ ~out.fault
  /\ Len(out.filtered) > DisplayCap
  /\ out.filtered # sort_values(df, out.filtered)
  /\ \E i \in Range(out.filtered) :
       ~isna(df[i].title) /\ "\"" \in Range(Val(df[i].title))
  /\ \E i \in Range(out.filtered) : isna(df[i].vote_average)

=============================================================================
